---- MODULE Spec2Model ----
(***************************************************************************)
(* oslo.version: the Releases enumeration (releases.py) and the            *)
(* `deprecated` decorator (deprecated.py).                                 *)
(*                                                                         *)
(* Python strings that the code only stores, compares for equality or      *)
(* interpolates are TLA+ strings.  Strings that the code lowercases or     *)
(* orders are sequences of characters (Chars gives the characters of the   *)
(* enumeration's names and codes).  Python objects are records with a      *)
(* `cls` field naming their class.                                         *)
(***************************************************************************)
EXTENDS Integers, Sequences, FiniteSets, TLC

VARIABLES
    last,       \* the last call made on releases.py: operation, inputs, outcome
    given,      \* the arguments deprecated(...) was called with
    marker,     \* the deprecated() instance: its attributes
    target,     \* the object the marker was applied to
    applied,    \* outcome of marker(target): what came back or what was raised
    events,     \* what has been called / printed / invoked / raised, in order
    calls,      \* number of calls made on the decorated target
    pc          \* "start", "constructed", "applied" or "failed"

vars == <<last, given, marker, target, applied, events, calls, pc>>

----------------------------------------------------------------------------
(* Bounds of the model *)

MaxCalls == 2       \* calls made on one decorated target
MaxRemoveIn == 3    \* largest remove_in a marker is built with
MaxDelta == 13      \* largest remove_in tried on _get_safe_to_remove_release
MaxBack == 13       \* most negative remove_in tried on it
MaxPrefix == 3      \* longest proper prefix of a name given to match

----------------------------------------------------------------------------
(* releases.py *)

Release(name, value) == [cls |-> "Releases", name |-> name, value |-> value]

\* class Releases(enum.Enum): the members, in declaration order
\* (list(Releases) iterates in this order).
Releases ==
    << Release("AUSTIN", "A"),   Release("BEXAR", "B"),
       Release("CACTUS", "C"),   Release("DIABLO", "D"),
       Release("ESSEX", "E"),    Release("FOLSOM", "F"),
       Release("GRIZZLY", "G"),  Release("HAVANA", "H"),
       Release("ICEHOUSE", "I"), Release("JUNO", "J"),
       Release("KILO", "K"),     Release("LIBERTY", "L") >>

ReleaseSet == { Releases[i] : i \in DOMAIN Releases }

\* Python's None
None == [cls |-> "NoneType", name |-> "None", value |-> ""]

\* The module-level names releases.ICEHOUSE etc.
AUSTIN == Releases[1]
ICEHOUSE == Releases[9]
JUNO == Releases[10]
KILO == Releases[11]
LIBERTY == Releases[12]

\* The characters of a string: the enumeration's names and codes, and the
\* texts the model passes as as_of.
Chars(s) ==
    CASE s = "AUSTIN"   -> <<"A","U","S","T","I","N">>
      [] s = "BEXAR"    -> <<"B","E","X","A","R">>
      [] s = "CACTUS"   -> <<"C","A","C","T","U","S">>
      [] s = "DIABLO"   -> <<"D","I","A","B","L","O">>
      [] s = "ESSEX"    -> <<"E","S","S","E","X">>
      [] s = "FOLSOM"   -> <<"F","O","L","S","O","M">>
      [] s = "GRIZZLY"  -> <<"G","R","I","Z","Z","L","Y">>
      [] s = "HAVANA"   -> <<"H","A","V","A","N","A">>
      [] s = "ICEHOUSE" -> <<"I","C","E","H","O","U","S","E">>
      [] s = "JUNO"     -> <<"J","U","N","O">>
      [] s = "KILO"     -> <<"K","I","L","O">>
      [] s = "LIBERTY"  -> <<"L","I","B","E","R","T","Y">>
      [] s = "icehouse" -> <<"i","c","e","h","o","u","s","e">>
      [] s = "Juno"     -> <<"J","u","n","o">>
      [] s = "NOPE"     -> <<"N","O","P","E">>
      [] s = ""         -> << >>
      [] OTHER          -> <<s>>      \* the one-character codes

UpperAlpha == <<"A","B","C","D","E","F","G","H","I","J","K","L","M",
                "N","O","P","Q","R","S","T","U","V","W","X","Y","Z">>
LowerAlpha == <<"a","b","c","d","e","f","g","h","i","j","k","l","m",
                "n","o","p","q","r","s","t","u","v","w","x","y","z">>

\* Characters outside ASCII that str.lower() maps specially:
\* KELVIN SIGN lowers to "k"; LATIN CAPITAL I WITH DOT ABOVE lowers to
\* the two characters "i" + COMBINING DOT ABOVE.
KelvinSign == "U+212A"
CapitalIDot == "U+0130"
CombiningDot == "U+0307"

\* ord(c): the code point of a character
Ord(c) ==
    IF \E i \in DOMAIN UpperAlpha : UpperAlpha[i] = c
      THEN 64 + (CHOOSE i \in DOMAIN UpperAlpha : UpperAlpha[i] = c)
    ELSE IF \E i \in DOMAIN LowerAlpha : LowerAlpha[i] = c
      THEN 96 + (CHOOSE i \in DOMAIN LowerAlpha : LowerAlpha[i] = c)
    ELSE IF c = "(" THEN 40
    ELSE IF c = CapitalIDot THEN 304
    ELSE IF c = CombiningDot THEN 775
    ELSE IF c = KelvinSign THEN 8490
    ELSE 0

\* str.lower() of one character (a sequence: lowering may lengthen)
LowerChar(c) ==
    IF \E i \in DOMAIN UpperAlpha : UpperAlpha[i] = c
      THEN << LowerAlpha[CHOOSE i \in DOMAIN UpperAlpha : UpperAlpha[i] = c] >>
    ELSE IF c = KelvinSign THEN << "k" >>
    ELSE IF c = CapitalIDot THEN << "i", CombiningDot >>
    ELSE << c >>

\* str.lower()
RECURSIVE lower(_)
lower(text) ==
    IF text = << >> THEN << >>
    ELSE LowerChar(Head(text)) \o lower(Tail(text))

\* str.__lt__: lexicographic by code point
RECURSIVE StrLess(_, _)
StrLess(a, b) ==
    IF b = << >> THEN FALSE
    ELSE IF a = << >> THEN TRUE
    ELSE IF Ord(Head(a)) # Ord(Head(b)) THEN Ord(Head(a)) < Ord(Head(b))
    ELSE StrLess(Tail(a), Tail(b))

PyBool(b) == IF b THEN "True" ELSE "False"

\* Releases.__lt__ / __le__ / __gt__ / __ge__
\* __lt__ with the operands exchanged
lt_mutant(self, other) ==
    IF self.cls = other.cls
      THEN PyBool(StrLess(Chars(other.value), Chars(self.value)))
      ELSE "NotImplemented"

lt(self, other) ==
    IF self.cls = other.cls
      THEN PyBool(StrLess(Chars(self.value), Chars(other.value)))
      ELSE "NotImplemented"

le(self, other) ==
    IF self.cls = other.cls
      THEN PyBool(~ StrLess(Chars(other.value), Chars(self.value)))
      ELSE "NotImplemented"

gt(self, other) ==
    IF self.cls = other.cls
      THEN PyBool(StrLess(Chars(other.value), Chars(self.value)))
      ELSE "NotImplemented"

ge(self, other) ==
    IF self.cls = other.cls
      THEN PyBool(~ StrLess(Chars(self.value), Chars(other.value)))
      ELSE "NotImplemented"

CmpOps == {"<", "<=", ">", ">="}

Reflected(op) ==
    CASE op = "<" -> ">" [] op = "<=" -> ">=" [] op = ">" -> "<" [] op = ">=" -> "<="

\* The rich-comparison method of an operand's class.  Only Releases
\* operands reach the enumeration's methods; the other classes used here
\* (str, int, NoneType) answer NotImplemented for a Releases operand.
RichCmp(op, self, other) ==
    IF self.cls # "Releases" THEN "NotImplemented"
    ELSE CASE op = "<"  -> lt(self, other)
           [] op = "<=" -> le(self, other)
           [] op = ">"  -> gt(self, other)
           [] op = ">=" -> ge(self, other)

\* The expression `a op b`: a's method, then b's reflected one, then
\* TypeError when both answer NotImplemented.
Compare(op, a, b) ==
    LET first == RichCmp(op, a, b) IN
    IF first # "NotImplemented" THEN first
    ELSE LET second == RichCmp(Reflected(op), b, a) IN
         IF second # "NotImplemented" THEN second ELSE "TypeError"

\* match(text): the loop over list(Releases) from position i
RECURSIVE matchFrom(_, _)
matchFrom(text_lower, i) ==
    IF i > Len(Releases) THEN None
    ELSE IF lower(Chars(Releases[i].name)) = text_lower THEN Releases[i]
    ELSE IF lower(Chars(Releases[i].value)) = text_lower THEN Releases[i]
    ELSE matchFrom(text_lower, i + 1)

\* match without text.lower()
match_mutant(text) == matchFrom(text, 1)

match(text) == matchFrom(lower(text), 1)

----------------------------------------------------------------------------
(* deprecated.py: module level *)

\* sorted(): the stable ascending sort, which only asks `x < y` of the
\* elements.  Rank(s, i) is the place s[i] takes: after every element that
\* is less than it and after the earlier elements it is not less than.
Less(x, y) == Compare("<", x, y) = "True"

Rank(s, i) ==
    1 + Cardinality({ j \in DOMAIN s : Less(s[j], s[i]) })
      + Cardinality({ j \in 1..(i-1) : ~ Less(s[j], s[i]) /\ ~ Less(s[i], s[j]) })

sorted(s) == [k \in DOMAIN s |-> s[CHOOSE i \in DOMAIN s : Rank(s, i) = k]]

\* _ORDERED_RELEASES = sorted(releases.Releases)
_ORDERED_RELEASES == sorted(Releases)

\* list.index(x), 0-based as in Python
index(list, x) == (CHOOSE i \in DOMAIN list : list[i] = x /\ \A j \in 1..(i-1) : list[j] # x) - 1

\* Outcome of a call: exc = "" when it returned val, else the exception raised
Ok(v) == [exc |-> "", val |-> v]
Raise(e) == [exc |-> e, val |-> None]

\* list[idx] with Python's indexing: negative indices count from the end,
\* anything outside -len..len-1 raises IndexError.
GetItem(list, idx) ==
    IF 0 <= idx /\ idx < Len(list) THEN Ok(list[idx + 1])
    ELSE IF idx < 0 /\ idx >= - Len(list) THEN Ok(list[Len(list) + idx + 1])
    ELSE Raise("IndexError")

\* Values a caller may pass where text is expected
PyNone == "<None>"
Truthy(x) == x # PyNone /\ x # ""

\* A str object holding text s
PyStr(s) == [cls |-> "str", name |-> "", value |-> s]
PyInt(s) == [cls |-> "int", name |-> "", value |-> s]

isinstance(obj, cls) == obj.cls = cls

\* The attributes of the class object releases.Releases: its members and the
\* methods defined in the class body.  match, AUSTIN, ... are attributes of
\* the module, not of the class.
ReleasesClassAttrs ==
    { Releases[i].name : i \in DOMAIN Releases }
        \cup {"__ge__", "__gt__", "__le__", "__lt__"}

----------------------------------------------------------------------------
(* deprecated.py: class deprecated *)

Lit(s) == [key |-> "", lit |-> s]
Key(k) == [key |-> k, lit |-> ""]

_deprecated_msg_with_alternative ==
    << Key("what"), Lit(" is deprecated as of "), Key("as_of"),
       Lit(" in favor of "), Key("in_favor_of"),
       Lit(" and may be removed in "), Key("remove_in"), Lit(".") >>

_deprecated_msg_no_alternative ==
    << Key("what"), Lit(" is deprecated as of "), Key("as_of"),
       Lit(" and may be removed in "), Key("remove_in"),
       Lit(". It will not be superseded.") >>

_deprecated_msg_with_alternative_no_removal ==
    << Key("what"), Lit(" is deprecated as of "), Key("as_of"),
       Lit(" in favor of "), Key("in_favor_of"), Lit(".") >>

_deprecated_msg_with_no_alternative_no_removal ==
    << Key("what"), Lit(" is deprecated as of "), Key("as_of"),
       Lit(". It will not be superseded.") >>

\* remove_in=2 in the signature of __init__
DefaultRemoveIn == 2

\* deprecated.__init__(as_of, in_favor_of, remove_in, what, log)
init(as_of, in_favor_of, remove_in, what, log) ==
    [as_of |-> as_of, in_favor_of |-> in_favor_of, remove_in |-> remove_in,
     what |-> what,
     log |-> IF log = PyNone THEN "LOG" ELSE log]

\* deprecated._translate_release(release): the check of what match gave
release_enum_or_raise(release_enum) ==
    IF release_enum = None
      THEN Raise("ValueError: No known release")
      ELSE Ok(release_enum)

\* deprecated._translate_release(release).  releases.Releases.match is an
\* attribute lookup on the enumeration class.
_translate_release(release) ==
    IF ~ isinstance(release, "Releases")
      THEN IF "match" \notin ReleasesClassAttrs
             THEN Raise("AttributeError: match")
             ELSE release_enum_or_raise(match(Chars(release.value)))
      ELSE Ok(release)

\* try: return _ORDERED_RELEASES[new_release_idx]
\* except IndexError: raise ValueError(...)
except_IndexError(got) ==
    IF got.exc = "IndexError"
      THEN Raise("ValueError: No known release that is +")
      ELSE got

\* The body of _get_safe_to_remove_release after the release is translated
\* the offset clamped to the last release instead of raising
safe_mutant(self, translated) ==
    IF translated.exc # "" THEN translated
    ELSE IF index(_ORDERED_RELEASES, translated.val) + self.remove_in
              >= Len(_ORDERED_RELEASES)
      THEN Ok(_ORDERED_RELEASES[Len(_ORDERED_RELEASES)])
      ELSE GetItem(_ORDERED_RELEASES,
                   index(_ORDERED_RELEASES, translated.val) + self.remove_in)

\* the offset counted from the release after, one short
safe_off_by_one(self, translated) ==
    IF translated.exc # "" THEN translated
    ELSE except_IndexError(
           GetItem(_ORDERED_RELEASES,
                   index(_ORDERED_RELEASES, translated.val) + self.remove_in - 1))

safe_to_remove(self, translated) ==
    IF translated.exc # "" THEN translated
    ELSE except_IndexError(
           GetItem(_ORDERED_RELEASES,
                   index(_ORDERED_RELEASES, translated.val) + self.remove_in))

\* deprecated._get_safe_to_remove_release(self, release)
_get_safe_to_remove_release(self, release) ==
    safe_to_remove(self, _translate_release(release))

\* What _build_message returns or raises
Built(msg, details) == [exc |-> "", msg |-> msg, details |-> details]
BuildRaise(e) == [exc |-> e, msg |-> << >>, details |-> << >>]

\* details = dict(what=self.what, as_of=as_of.name, remove_in=remove_in.name)
Details(self, as_of, remove_in) ==
    [what |-> self.what, as_of |-> as_of.name, remove_in |-> remove_in.name]

\* The body of _build_message once as_of and remove_in are Releases
\* the removal templates chosen for remove_in >= 0
select_mutant(self, as_of, remove_in) ==
    IF Truthy(self.in_favor_of)
      THEN Built(IF self.remove_in >= 0
                   THEN _deprecated_msg_with_alternative
                   ELSE _deprecated_msg_with_alternative_no_removal,
                 Details(self, as_of, remove_in)
                     @@ ("in_favor_of" :> self.in_favor_of))
      ELSE Built(IF self.remove_in >= 0
                   THEN _deprecated_msg_no_alternative
                   ELSE _deprecated_msg_with_no_alternative_no_removal,
                 Details(self, as_of, remove_in))

select_message(self, as_of, remove_in) ==
    IF Truthy(self.in_favor_of)
      THEN Built(IF self.remove_in > 0
                   THEN _deprecated_msg_with_alternative
                   ELSE _deprecated_msg_with_alternative_no_removal,
                 Details(self, as_of, remove_in)
                     @@ ("in_favor_of" :> self.in_favor_of))
      ELSE Built(IF self.remove_in > 0
                   THEN _deprecated_msg_no_alternative
                   ELSE _deprecated_msg_with_no_alternative_no_removal,
                 Details(self, as_of, remove_in))

\* _build_message given the outcomes of its two calls: an exception of
\* either propagates, the first call's first
build_from(self, as_of, remove_in) ==
    IF as_of.exc # "" THEN BuildRaise(as_of.exc)
    ELSE IF remove_in.exc # "" THEN BuildRaise(remove_in.exc)
    ELSE select_message(self, as_of.val, remove_in.val)

\* deprecated._build_message(self)
_build_message(self) ==
    build_from(self, _translate_release(self.as_of),
                     _get_safe_to_remove_release(self, self.as_of))

\* msg % details: each %(key)s replaced by details[key]; the text is kept
\* as its fragments, Join gives the flat string.
Format(msg, details) ==
    [i \in DOMAIN msg |->
        IF msg[i].key = "" THEN msg[i].lit
        ELSE IF msg[i].key \in DOMAIN details THEN details[msg[i].key]
        ELSE "<KeyError>"]

RECURSIVE Join(_)
Join(parts) == IF parts = << >> THEN "" ELSE Head(parts) \o Join(Tail(parts))

----------------------------------------------------------------------------
(* Events: what a call on the decorated target does, in order *)

Event(ev) ==
    [ev |-> ev, text |-> << >>, logger |-> "", callee |-> "", args |-> "",
     exc |-> "", val |-> ""]

Called(callee, args) == [Event("call") EXCEPT !.callee = callee, !.args = args]
Printed(logger, text) == [Event("print") EXCEPT !.logger = logger, !.text = text]
Invoked(callee, args, outcome) ==
    [Event("invoke") EXCEPT !.callee = callee, !.args = args,
                            !.exc = outcome.exc, !.val = outcome.val]
Returned(val) == [Event("return") EXCEPT !.val = val]
Raised(exc) == [Event("raise") EXCEPT !.exc = exc]
MethodCalled(callee) == [Event("method") EXCEPT !.callee = callee]

\* _report_deprecated_feature(logger, msg, details): print(msg % details)
_report_deprecated_feature(logger, msg, details) ==
    Printed(logger, Format(msg, details))

\* How a function or statement ends given what its callee did
Propagate(outcome) ==
    IF outcome.exc # "" THEN Raised(outcome.exc) ELSE Returned(outcome.val)

\* The objects a marker is applied to.  hasName: the object has __name__;
\* instLog: instances of the class have an attribute `log`.
Target(kind, name, hasName, instLog) ==
    [kind |-> kind, name |-> name, hasName |-> hasName, instLog |-> instLog]

isfunction(obj) == obj.kind = "function"
isclass(obj) == obj.kind = "class"

\* What marker(target) returned or raised, with what the closure captured
Applied(kind, msg, details) ==
    [exc |-> "", kind |-> kind, msg |-> msg, details |-> details]
ApplyRaise(e) == [exc |-> e, kind |-> "", msg |-> << >>, details |-> << >>]

\* if not self.what: self.what = func_or_cls.__name__ + '()'
default_what(self, func_or_cls) ==
    IF ~ Truthy(self.what)
      THEN [self EXCEPT !.what = func_or_cls.name \o "()"]
      ELSE self

TypeErrorText == "TypeError: deprecated can be used only with functions or classes"

\* The body of __call__ after msg, details = self._build_message()
decorate(self, func_or_cls, built) ==
    IF built.exc # ""
      THEN [self |-> self, result |-> ApplyRaise(built.exc)]
    ELSE IF isfunction(func_or_cls)
      THEN [self |-> self, result |-> Applied("wrapped", built.msg, built.details)]
    ELSE IF isclass(func_or_cls)
      THEN [self |-> self, result |-> Applied("class", built.msg, built.details)]
    ELSE [self |-> self, result |-> ApplyRaise(TypeErrorText)]

\* deprecated.__call__(self, func_or_cls): the marker afterwards and the
\* outcome of the call
__call__(self, func_or_cls) ==
    IF ~ Truthy(self.what) /\ ~ func_or_cls.hasName
      THEN [self |-> self, result |-> ApplyRaise("AttributeError: __name__")]
      ELSE decorate(default_what(self, func_or_cls), func_or_cls,
                    _build_message(default_what(self, func_or_cls)))

\* wrapped(*args, **kwargs), the closure over self, msg, details and
\* func_or_cls; `outcome` is what func_or_cls does with these arguments
\* the original invoked before the report
wrapped_mutant(self, closure, func_or_cls, args, outcome) ==
    << Called(func_or_cls.name, args),
       Invoked(func_or_cls.name, args, outcome),
       _report_deprecated_feature(self.log, closure.msg, closure.details),
       Propagate(outcome) >>

wrapped(self, closure, func_or_cls, args, outcome) ==
    << Called(func_or_cls.name, args),
       _report_deprecated_feature(self.log, closure.msg, closure.details),
       Invoked(func_or_cls.name, args, outcome),
       Propagate(outcome) >>

\* new_init(self, *args, **kwargs): here `self` is the instance being
\* constructed, so self.log is looked up on the instance.  orig_init's
\* return value is dropped.
new_init(closure, func_or_cls, args, outcome) ==
    IF ~ func_or_cls.instLog
      THEN << Called(func_or_cls.name, args), Raised("AttributeError: log") >>
      ELSE << Called(func_or_cls.name, args),
              _report_deprecated_feature("instance.log", closure.msg, closure.details),
              Invoked("orig_init", args, outcome),
              Propagate([outcome EXCEPT !.val = "None"]) >>

----------------------------------------------------------------------------
(* Inputs *)

AsOfTexts == { PyStr("ICEHOUSE"), PyStr("icehouse"), PyStr("I"), PyStr("NOPE") }
AsOfValues == ReleaseSet \cup AsOfTexts
InFavorOfValues == { PyNone, "", "f()" }
WhatValues == { PyNone, "thing" }
LogValues == { PyNone, "mylog" }
RemoveInValues == 0..MaxRemoveIn

Targets ==
    { Target("function", "b", TRUE, FALSE),
      Target("function", "d", TRUE, FALSE),
      Target("class", "K", TRUE, FALSE),
      Target("class", "KL", TRUE, TRUE),
      Target("builtin", "len", TRUE, FALSE),
      Target("int", "", FALSE, FALSE) }

ArgValues == { "()", "(1, k=2)" }

\* What the original function or initializer does with its arguments
OrigOutcomes(name, args) ==
    { [exc |-> "", val |-> name \o args \o " result"],
      [exc |-> "OrigError", val |-> ""] }

----------------------------------------------------------------------------
(* The decorator as a state machine *)

NoCall == [op |-> "none"]

Init ==
    /\ last = NoCall
    /\ given = None
    /\ marker = None
    /\ target = None
    /\ applied = ApplyRaise("")
    /\ events = << >>
    /\ calls = 0
    /\ pc = "start"

\* m = deprecated(as_of, in_favor_of=..., remove_in=..., what=..., log=...)
Construct ==
    /\ pc = "start"
    /\ \E as_of \in AsOfValues, in_favor_of \in InFavorOfValues,
          remove_in \in RemoveInValues, remove_in_given \in BOOLEAN,
          what \in WhatValues, log \in LogValues :
       \E r \in { IF remove_in_given THEN remove_in ELSE DefaultRemoveIn } :
         /\ given' = [as_of |-> as_of, in_favor_of |-> in_favor_of,
                      remove_in |-> r, remove_in_given |-> remove_in_given,
                      what |-> what, log |-> log]
         /\ marker' = init(as_of, in_favor_of, r, what, log)
    /\ pc' = "constructed"
    /\ UNCHANGED <<last, target, applied, events, calls>>

\* decorated = m(func_or_cls)
Apply ==
    /\ pc = "constructed"
    /\ \E t \in Targets :
       \E r \in { __call__(marker, t) } :
         /\ target' = t
         /\ marker' = r.self
         /\ applied' = r.result
         /\ pc' = IF r.result.exc = "" THEN "applied" ELSE "failed"
    /\ UNCHANGED <<last, given, events, calls>>

\* decorated(*args, **kwargs) for a decorated function
CallWrapped ==
    /\ pc = "applied"
    /\ applied.kind = "wrapped"
    /\ calls < MaxCalls
    /\ \E args \in ArgValues :
         \E outcome \in OrigOutcomes(target.name, args) :
           events' = events \o wrapped(marker, applied, target, args, outcome)
    /\ calls' = calls + 1
    /\ UNCHANGED <<last, given, marker, target, applied, pc>>

\* decorated(*args, **kwargs) for a decorated class: object construction
\* runs the class's __init__, which is now new_init
Instantiate ==
    /\ pc = "applied"
    /\ applied.kind = "class"
    /\ calls < MaxCalls
    /\ \E args \in ArgValues :
         \E outcome \in OrigOutcomes(target.name, args) :
           events' = events \o new_init(applied, target, args, outcome)
    /\ calls' = calls + 1
    /\ UNCHANGED <<last, given, marker, target, applied, pc>>

\* instance.method(): the class's other attributes are untouched
CallMethod ==
    /\ pc = "applied"
    /\ applied.kind = "class"
    /\ calls < MaxCalls
    /\ \E i \in DOMAIN events : events[i].ev = "return"
    /\ events' = Append(events, MethodCalled("method"))
    /\ calls' = calls + 1
    /\ UNCHANGED <<last, given, marker, target, applied, pc>>

Next == Construct \/ Apply \/ CallWrapped \/ Instantiate \/ CallMethod

Spec == Init /\ [][Next]_vars

----------------------------------------------------------------------------
(* releases.py and the offset computation called directly.  These are pure *)
(* functions of their arguments: a behaviour makes one call, on arguments  *)
(* drawn from the sets below, and `last` records it.                       *)

\* The ASCII lower-case letter of an upper-case one
AsciiLower(c) == LowerAlpha[Ord(c) - 64]

\* text with the letters at the positions in S lower-cased
LowerAt(text, S) ==
    [i \in DOMAIN text |-> IF i \in S THEN AsciiLower(text[i]) ELSE text[i]]

\* Some letter casings of an upper-case text
Casings(text) ==
    { LowerAt(text, S) :
        S \in { {}, DOMAIN text, DOMAIN text \ {1},
                { i \in DOMAIN text : i % 2 = 1 },
                { i \in DOMAIN text : i % 2 = 0 } } }

NameTexts == UNION { Casings(Chars(Releases[i].name)) : i \in DOMAIN Releases }
CodeTexts == UNION { Casings(Chars(Releases[i].value)) : i \in DOMAIN Releases }
PrefixTexts == { SubSeq(t, 1, k) : t \in NameTexts, k \in 0..MaxPrefix }
ExtendedTexts ==
    { t \o <<"S">> : t \in NameTexts } \cup { <<"X">> \o t : t \in CodeTexts }
SpecialTexts ==
    { <<KelvinSign>>, <<KelvinSign, "i", "l", "o">>, <<CapitalIDot>>,
      <<CapitalIDot, "C", "E", "H", "O", "U", "S", "E">>,
      <<"M">>, <<"z">>, <<"I", "I">>, <<"(">> }

MatchTexts ==
    NameTexts \cup CodeTexts \cup PrefixTexts \cup ExtendedTexts \cup SpecialTexts

\* Operands that are not Releases
OtherOperands == { PyStr("I"), PyInt("5"), None }
Operands == ReleaseSet \cup OtherOperands

InitReleases == Init

\* releases.match(text)
DoMatch ==
    /\ last = NoCall
    /\ \E text \in MatchTexts :
         last' = [op |-> "match", text |-> text, result |-> match(text)]
    /\ UNCHANGED <<given, marker, target, applied, events, calls, pc>>

\* a < b, a <= b, a > b, a >= b with at least one Releases operand
DoCompare ==
    /\ last = NoCall
    /\ \E cmp \in CmpOps, a \in Operands, b \in Operands :
         /\ a \in ReleaseSet \/ b \in ReleaseSet
         /\ last' = [op |-> "compare", cmp |-> cmp, a |-> a, b |-> b,
                     result |-> Compare(cmp, a, b)]
    /\ UNCHANGED <<given, marker, target, applied, events, calls, pc>>

\* deprecated(release, remove_in=delta)._get_safe_to_remove_release(release)
DoOffset ==
    /\ last = NoCall
    /\ \E release \in ReleaseSet, delta \in (- MaxBack)..MaxDelta :
         last' = [op |-> "offset", release |-> release, delta |-> delta,
                  result |-> _get_safe_to_remove_release(
                                 init(release, PyNone, delta, PyNone, PyNone),
                                 release)]
    /\ UNCHANGED <<given, marker, target, applied, events, calls, pc>>

NextReleases == DoMatch \/ DoCompare \/ DoOffset

SpecReleases == InitReleases /\ [][NextReleases]_vars

----------------------------------------------------------------------------
(* Properties *)

\* The declared position of a release (1 for the first)
Pos(r) == CHOOSE i \in DOMAIN Releases : Releases[i] = r

Count(ev) == Cardinality({ i \in DOMAIN events : events[i].ev = ev })

Decorated == pc \in {"applied", "failed"}

FunctionB == Target("function", "b", TRUE, FALSE)

\* C1: for a decorated function, every call is exactly: the call, one print
\* of the notice, one invocation of the original with the call's arguments,
\* and the original's outcome handed back unchanged; so after n calls there
\* are n prints and n invocations and each invocation follows its print.
C1_WrappedCallOrder ==
    (pc = "applied" /\ applied.kind = "wrapped") =>
        /\ Len(events) = 4 * calls
        /\ Count("print") = calls
        /\ Count("invoke") = calls
        /\ \A k \in 0..(calls - 1) :
             /\ events[4*k + 1].ev = "call"
             /\ events[4*k + 2].ev = "print"
             /\ events[4*k + 2].text = Format(applied.msg, applied.details)
             /\ events[4*k + 3].ev = "invoke"
             /\ events[4*k + 3].callee = target.name
             /\ events[4*k + 3].args = events[4*k + 1].args
             /\ events[4*k + 4] =
                  IF events[4*k + 3].exc # ""
                    THEN Raised(events[4*k + 3].exc)
                    ELSE Returned(events[4*k + 3].val)

C1_Witness ==
    /\ pc = "applied" /\ applied.kind = "wrapped" /\ calls = 2
    /\ events[4].ev = "return" /\ events[4].val = "b(1, k=2) result"
    /\ events[8].ev = "raise"

\* C2: for any decorated class, each construction prints one notice and
\* then runs the original initializer: after k constructions there are k
\* prints and k runs of the original initializer.
C2_OneNoticePerConstruction ==
    (pc = "applied" /\ applied.kind = "class") =>
        /\ Count("print") = Count("call")
        /\ Count("invoke") = Count("call")

\* C3: a marker whose as_of is text behaves, when applied to a function,
\* as the marker whose as_of is the release the text matches; when the
\* text matches no release, apply raises the unknown-release error.
C3_TextAsOfResolves ==
    (Decorated /\ given.as_of.cls = "str" /\ isfunction(target)) =>
        IF match(Chars(given.as_of.value)) # None
          THEN applied =
                 __call__([given EXCEPT !.as_of = match(Chars(given.as_of.value))],
                          target).result
          ELSE applied.exc = "ValueError: No known release"

\* The text the four templates of C4 give for a marker with a Release as_of
C4_Expected(m) ==
    IF Truthy(m.in_favor_of) /\ m.remove_in > 0
      THEN m.what \o " is deprecated as of " \o m.as_of.name \o " in favor of "
             \o m.in_favor_of \o " and may be removed in "
             \o Releases[Pos(m.as_of) + m.remove_in].name \o "."
    ELSE IF Truthy(m.in_favor_of)
      THEN m.what \o " is deprecated as of " \o m.as_of.name \o " in favor of "
             \o m.in_favor_of \o "."
    ELSE IF m.remove_in > 0
      THEN m.what \o " is deprecated as of " \o m.as_of.name
             \o " and may be removed in "
             \o Releases[Pos(m.as_of) + m.remove_in].name
             \o ". It will not be superseded."
    ELSE m.what \o " is deprecated as of " \o m.as_of.name
             \o ". It will not be superseded."

\* C4: the notice of a decorated target is the template picked by
\* (in_favor_of given and non-empty, remove_in > 0), with the releases
\* interpolated by name; with remove_in = 0 it has no removal clause.
C4_TemplateChoice ==
    pc = "applied" =>
        /\ Join(Format(applied.msg, applied.details)) = C4_Expected(marker)
        /\ \A i \in DOMAIN events :
             events[i].ev = "print" =>
               /\ Join(events[i].text) = C4_Expected(marker)
               /\ marker.remove_in = 0 =>
                    \A j \in DOMAIN events[i].text :
                        events[i].text[j] # " and may be removed in "

C4_Witness ==
    /\ pc = "applied" /\ marker.remove_in = 0 /\ marker.in_favor_of = "f()"
    /\ Count("print") = 2

\* The configuration of C5: in_favor_of="f()", remove_in and what left out,
\* applied to function b
C5_Config ==
    /\ Decorated
    /\ given.in_favor_of = "f()"
    /\ ~ given.remove_in_given
    /\ given.what = PyNone
    /\ target = FunctionB

C6_OffsetByPosition ==
    (last.op = "offset" /\ last.delta >= 0) =>
        IF Pos(last.release) + last.delta <= Len(Releases)
          THEN last.result = Ok(Releases[Pos(last.release) + last.delta])
          ELSE last.result = Raise("ValueError: No known release that is +")

C6_Witness ==
    /\ last.op = "offset" /\ last.release = LIBERTY /\ last.delta = 1
    /\ last.result.exc # ""

PosCmp(cmp, i, j) ==
    CASE cmp = "<" -> i < j [] cmp = "<=" -> i <= j
      [] cmp = ">" -> i > j [] cmp = ">=" -> i >= j

\* C7: two releases compare as their declared positions do, so the sorted
\* list is the declaration order; a release compared with anything else
\* is a TypeError.
C7_OrderIsDeclarationOrder ==
    /\ _ORDERED_RELEASES = Releases
    /\ last.op = "compare" =>
         IF last.a \in ReleaseSet /\ last.b \in ReleaseSet
           THEN last.result = PyBool(PosCmp(last.cmp, Pos(last.a), Pos(last.b)))
           ELSE last.result = "TypeError"

C7_Witness ==
    /\ last.op = "compare" /\ last.cmp = ">=" /\ last.a = KILO /\ last.b = ICEHOUSE
    /\ last.result = "True"

\* text is `upper` with some of its letters lower-cased
IsCasingOf(text, upper) ==
    /\ Len(text) = Len(upper)
    /\ \A i \in DOMAIN upper : text[i] = upper[i] \/ text[i] = AsciiLower(upper[i])

\* Release i matches text after lowercasing
Matches(i, text) ==
    \/ lower(Chars(Releases[i].name)) = lower(text)
    \/ lower(Chars(Releases[i].value)) = lower(text)

\* C8: a release's name or code in any letter casing resolves to that
\* release; a text equal to no name and no code after lowercasing, a proper
\* prefix of a name among them, resolves to None; a text that matches
\* resolves to the first release in declaration order that matches.
C8_MatchResolves ==
    last.op = "match" =>
        /\ last.result \in ReleaseSet \cup {None}
        /\ \A i \in DOMAIN Releases :
             ( \/ IsCasingOf(last.text, Chars(Releases[i].name))
               \/ IsCasingOf(last.text, Chars(Releases[i].value)) )
                 => last.result = Releases[i]
        /\ (\A i \in DOMAIN Releases : ~ Matches(i, last.text))
             => last.result = None
        /\ \A i \in DOMAIN Releases :
             \A k \in 2..(Len(Chars(Releases[i].name)) - 1) :
               IsCasingOf(last.text, SubSeq(Chars(Releases[i].name), 1, k))
                 => last.result = None
        /\ (\E i \in DOMAIN Releases : Matches(i, last.text))
             => /\ last.result \in ReleaseSet
                /\ Matches(Pos(last.result), last.text)
                /\ \A j \in 1..(Pos(last.result) - 1) : ~ Matches(j, last.text)

C8_Witness ==
    /\ last.op = "match"
    /\ last.text = <<"i", "C", "e", "H", "o", "U", "s", "E">>
    /\ last.result = ICEHOUSE

\* C9: applying any marker to a target that is neither a function nor a
\* class raises the TypeError of __call__ and nothing else.
C9_InvalidTargetIsTypeError ==
    (Decorated /\ ~ isfunction(target) /\ ~ isclass(target)) =>
        applied.exc = TypeErrorText

\* given.as_of matches no release / given.remove_in leads past the last one
C10_Unresolvable ==
    given.as_of.cls = "str" /\ match(Chars(given.as_of.value)) = None
C10_OutOfRange ==
    given.as_of.cls = "Releases" /\ Pos(given.as_of) + given.remove_in > Len(Releases)

\* C10: the constructor stores its arguments and never fails; for a function
\* or a class, an unresolvable as_of raises the unknown-release error and an
\* out-of-range remove_in the out-of-range error when the marker is applied;
\* once applied, no call raises either and every call prints the same text.
C10_ErrorsSurfaceAtApply ==
    /\ pc = "constructed" =>
         /\ marker.as_of = given.as_of
         /\ marker.in_favor_of = given.in_favor_of
         /\ marker.remove_in = given.remove_in
         /\ marker.what = given.what
    /\ (Decorated /\ (isfunction(target) \/ isclass(target))) =>
         /\ C10_Unresolvable => applied.exc = "ValueError: No known release"
         /\ C10_OutOfRange => applied.exc = "ValueError: No known release that is +"
    /\ pc = "applied" =>
         \A i \in DOMAIN events :
           /\ events[i].exc \notin { "ValueError: No known release",
                                     "ValueError: No known release that is +" }
           /\ events[i].ev = "print" =>
                events[i].text = Format(applied.msg, applied.details)

====
